---- MODULE Spec2Model ----
(***************************************************************************)
(* Model of intermediate_source/optimizer_step_in_backward_tutorial.py.    *)
(*                                                                         *)
(* The script runs top to bottom: it builds a model and one shared Adam,   *)
(* records three baseline training iterations, builds one Adam per         *)
(* parameter (optimizer_dict), registers optimizer_hook on every parameter,*)
(* deletes the shared optimizer and records three fused iterations.        *)
(*                                                                         *)
(* Tensors are abstracted to integers.  The autograd engine, Adam and the  *)
(* CUDA memory recorder are modelled by what the script's calls and the    *)
(* script's own commentary say they do.                                    *)
(***************************************************************************)
EXTENDS Integers, Sequences, FiniteSets, TLC

\* ------------------------------------------------------------- bounds
NumParams == 2          \* number of parameter tensors of the model
MaxImage  == 1          \* fake images are drawn from 0..MaxImage
MaxSize   == 2          \* a parameter's size, when sizes vary
MaxAct    == 1          \* a layer's saved-activation size, when sizes vary

\* -------------------------------------------------- program constants
NumIters  == 3          \* for _ in range(3)
ParamSize == 3          \* ~1.2GB of parameters, in units of ~0.4GB
ActSize   == 1          \* ~0.4GB of saved activations

Params == 1..NumParams
Phases == {"baseline", "fused"}

VARIABLES
  pc,             \* position in the script
  phase,          \* which train() definition is bound: "baseline" or "fused"
  iter,           \* completed iterations of the current for-loop
  value,          \* value[p]: the parameter tensor p
  grad,           \* grad[p]: p.grad, <<>> for None, <<g>> otherwise
  acts,           \* layers whose saved activation is still alive
  saved,          \* what forward saved for backward: image, weights, graph
  pending,        \* parameters whose gradient the engine has still to deliver
  cur,            \* the parameter whose hook is running
  optimizer,      \* the global name `optimizer`: an instance id, -1 once deleted
  optimizers,     \* the Adam instances alive: id -> [params, state]
  optimizer_dict, \* parameter -> id of its own Adam instance
  hooks,          \* parameters with optimizer_hook registered
  recording,      \* memory history is being recorded
  log,            \* the allocator's event history
  clock,          \* the allocator's event counter (timestamps)
  snapshot,       \* snapshot[phase]: the pickled snapshot, <<>> before the dump
  sz,             \* sz[p]: size of parameter p (and of its gradient)
  actsz,          \* actsz[p]: size of the activation saved for p's layer
  before,         \* history: values and update-rule states when the pass started
  fired,          \* history: hook invocations for p in the current pass
  shadow,         \* history: baseline iterations on the fused run's inputs
  peak,           \* history: highest resident memory seen while recording
  iterPeak        \* history: highest memory of the current iteration, and where

vars == <<pc, phase, iter, value, grad, acts, saved, pending, cur, optimizer,
          optimizers, optimizer_dict, hooks, recording, log, clock, snapshot,
          sz, actsz, before, fired, shadow, peak, iterPeak>>

\* ------------------------------------------------------------ helpers
Max(a, b) == IF a >= b THEN a ELSE b

RECURSIVE Sum(_, _)
Sum(f, S) == IF S = {} THEN 0
             ELSE LET x == CHOOSE y \in S : TRUE IN f[x] + Sum(f, S \ {x})

Isqrt(n) == CHOOSE r \in 0..n : r * r <= n /\ (r + 1) * (r + 1) > n

NoGrads == [p \in Params |-> <<>>]
NoState == [p \in Params |-> <<>>]

\* The pretrained weights: weights='DEFAULT' loads the same values every run.
PretrainedWeights == [p \in Params |-> p]

\* d(loss.sum())/dp for the forward pass that saved `weights` on image x.
\* It depends on every weight the forward pass read, not on p alone.
Gradient(p, weights, x) == ((x + p + Sum(weights, Params)) % 5) - 2

\* AccumulateGrad: the first gradient of a pass becomes p.grad, later ones add.
Accumulate(old, g) == IF old = <<>> THEN <<g>> ELSE <<old[1] + g>>

\* One Adam update of one parameter: the state is created on first use and
\* holds the step count and the two moment buffers.
FreshAdamState == [step |-> 0, exp_avg |-> 0, exp_avg_sq |-> 0]

AdamUpdate(v, g, st) ==
  LET s0 == IF st = <<>> THEN FreshAdamState ELSE st[1]
      m  == s0.exp_avg + g
      q  == s0.exp_avg_sq + g * g
  IN [value |-> v - ((2 * m) \div (Isqrt(q) + 1)),
      state |-> <<[step |-> s0.step + 1, exp_avg |-> m, exp_avg_sq |-> q]>>]

\* Adam.step(): every parameter the instance owns whose grad is not None.
AdamStep(opt, vals, grads) ==
  LET live == {p \in opt.params : grads[p] # <<>>}
      upd(p) == AdamUpdate(vals[p], grads[p][1], opt.state[p])
  IN [value |-> [p \in Params |-> IF p \in live THEN upd(p).value ELSE vals[p]],
      opt   |-> [opt EXCEPT !.state =
                   [p \in Params |-> IF p \in live THEN upd(p).state ELSE @[p]]]]

\* Adam.zero_grad(): sets the grad of every owned parameter to None.
ZeroGrad(opt, grads) ==
  [p \in Params |-> IF p \in opt.params THEN <<>> ELSE grads[p]]

\* The update-rule state that currently belongs to parameter p.
StateOf(p) ==
  IF p \in DOMAIN optimizer_dict
    THEN optimizers[optimizer_dict[p]].state[p]
    ELSE optimizers[optimizer].state[p]

\* ------------------------------------------------------------- memory
ParamMem == Sum(sz, Params)
ActMem(a) == Sum(actsz, a)
GradMem(g) == Sum(sz, {p \in Params : g[p] # <<>>})
StateMem(opts) ==
  Sum([o \in DOMAIN opts |->
         Sum([p \in Params |-> 2 * sz[p]],
             {p \in Params : opts[o].state[p] # <<>>})],
      DOMAIN opts)

\* Parameters + saved activations + live gradients + optimizer state.
Resident(g, a, opts) == ParamMem + ActMem(a) + GradMem(g) + StateMem(opts)

\* The shared Adam runs with the default foreach implementation, whose
\* intermediates are as large as the parameters; foreach=False has none.
ForeachScratch == ParamMem

\* The recorder appends an event only while recording is enabled.
Stamp(kinds, t) ==
  [k \in 1..Len(kinds) |-> [t |-> t + k, kind |-> kinds[k]]]

Recorded(on, kinds) == IF on THEN log \o Stamp(kinds, clock) ELSE log

Allocator(kinds) ==
  /\ clock' = clock + Len(kinds)
  /\ log' = Recorded(recording, kinds)

Repeat(kind, n) == [k \in 1..n |-> kind]

\* res: the highest resident memory during the step.
ObservePeak(res) ==
  peak' = IF recording THEN [peak EXCEPT ![phase] = Max(@, res)] ELSE peak

\* tot: the highest total memory (resident plus scratch) during the step.
ObserveIter(tot) ==
  iterPeak' = IF tot >= iterPeak.mem THEN [mem |-> tot, at |-> pc]
              ELSE iterPeak

Observe(res, tot) == ObservePeak(res) /\ ObserveIter(tot)

\* --------------------------------------------------------------- Init
InitScript ==
  /\ pc = "start"
  /\ phase = "baseline"
  /\ iter = 0
  /\ value = PretrainedWeights
  /\ grad = NoGrads
  /\ acts = {}
  /\ saved = [x |-> 0, value |-> PretrainedWeights, graph |-> {}]
  /\ pending = {}
  /\ cur = 0
  /\ optimizer = 0
  /\ optimizers = (0 :> [params |-> Params, state |-> NoState])
  /\ optimizer_dict = <<>>
  /\ hooks = {}
  /\ recording = FALSE
  /\ log = <<>>
  /\ clock = 0
  /\ snapshot = [ph \in Phases |-> <<>>]
  /\ before = [value |-> PretrainedWeights, state |-> NoState]
  /\ fired = [p \in Params |-> 0]
  /\ shadow = [value |-> PretrainedWeights,
               opt |-> [params |-> Params, state |-> NoState]]
  /\ peak = [ph \in Phases |-> 0]
  /\ iterPeak = [mem |-> 0, at |-> "start"]

\* vit_l_16 on one 224x224 image: parameters ~1.2GB, activations ~0.4GB.
Init ==
  /\ InitScript
  /\ sz = [p \in Params |-> ParamSize]
  /\ actsz = [p \in Params |-> ActSize]

\* Any other model and batch: the sizes are free.
InitAnySize ==
  /\ InitScript
  /\ sz \in [Params -> 1..MaxSize]
  /\ actsz \in [Params -> 0..MaxAct]

\* ------------------------------------------------------------ actions

\* torch.cuda.memory._record_memory_history(enabled='all')
RecordMemoryHistoryOn ==
  /\ pc \in {"start", "fused_start"}
  /\ recording' = TRUE
  /\ pc' = "loop"
  /\ iter' = 0
  /\ phase' = IF pc = "start" THEN "baseline" ELSE "fused"
  /\ UNCHANGED <<value, grad, acts, saved, pending, cur, optimizer, optimizers,
                 optimizer_dict, hooks, log, clock, snapshot, sz, actsz,
                 before, fired, shadow, peak, iterPeak>>

\* The reference run: one baseline iteration (forward, backward, step,
\* zero_grad) of a shared Adam on image x, gradients reaching graph.
BaselineIteration(sh, x, graph) ==
  LET grads == [p \in Params |->
                  IF p \in graph THEN <<Gradient(p, sh.value, x)>> ELSE <<>>]
      r == AdamStep(sh.opt, sh.value, grads)
  IN [value |-> r.value, opt |-> r.opt]

\* Faulty variant: the engine is handed every parameter, on the graph or not.
Forward_AllPending(graphs, images) ==
  /\ pc = "loop"
  /\ iter < NumIters
  /\ \E x \in images, g \in graphs :
       /\ saved' = [x |-> x, value |-> value, graph |-> g]
       /\ pending' = Params
       /\ acts' = g
       /\ shadow' = IF phase = "fused" THEN BaselineIteration(shadow, x, g)
                    ELSE shadow
       /\ Allocator(Repeat("alloc", Cardinality(g)))
       /\ ObservePeak(Resident(grad, g, optimizers))
       /\ iterPeak' = [mem |-> Resident(grad, g, optimizers), at |-> "forward"]
  /\ before' = [value |-> value, state |-> [p \in Params |-> StateOf(p)]]
  /\ fired' = [p \in Params |-> 0]
  /\ pc' = "bwd"
  /\ UNCHANGED <<phase, iter, value, grad, cur, optimizer, optimizers,
                 optimizer_dict, hooks, recording, snapshot, sz, actsz>>

\* train(): fake_image = torch.rand(...); loss = model.forward(fake_image)
Forward(graphs, images) ==
  /\ pc = "loop"
  /\ iter < NumIters
  /\ \E x \in images, g \in graphs :
       /\ saved' = [x |-> x, value |-> value, graph |-> g]
       /\ pending' = g
       /\ acts' = g
       /\ shadow' = IF phase = "fused" THEN BaselineIteration(shadow, x, g)
                    ELSE shadow
       /\ Allocator(Repeat("alloc", Cardinality(g)))
       /\ ObservePeak(Resident(grad, g, optimizers))
       /\ iterPeak' = [mem |-> Resident(grad, g, optimizers), at |-> "forward"]
  /\ before' = [value |-> value, state |-> [p \in Params |-> StateOf(p)]]
  /\ fired' = [p \in Params |-> 0]
  /\ pc' = "bwd"
  /\ UNCHANGED <<phase, iter, value, grad, cur, optimizer, optimizers,
                 optimizer_dict, hooks, recording, snapshot, sz, actsz>>

\* loss.sum().backward(): the engine delivers the gradient of one parameter
\* of the graph, frees the activation it was computed from, and calls the
\* parameter's post-accumulate-grad hook if one is registered.
EngineAccumulate(p) ==
  /\ pc = "bwd"
  /\ p \in pending
  /\ grad' = [grad EXCEPT ![p] =
                Accumulate(@, Gradient(p, saved.value, saved.x))]
  /\ acts' = acts \ {p}
  /\ pending' = pending \ {p}
  /\ IF p \in hooks
       THEN /\ pc' = "hook_step"
            /\ cur' = p
            /\ fired' = [fired EXCEPT ![p] = @ + 1]
       ELSE /\ pc' = "bwd"
            /\ UNCHANGED <<cur, fired>>
  /\ Allocator(<<"alloc", "free">>)
  /\ Observe(Resident(grad, acts, optimizers) + sz[p],
             Resident(grad, acts, optimizers) + sz[p])
  /\ UNCHANGED <<phase, iter, value, saved, optimizer, optimizers,
                 optimizer_dict, hooks, recording, snapshot, sz, actsz,
                 before, shadow>>

\* Faulty variant: zero_grad() is called first, so step() finds no gradient.
OptimizerHookStep_AfterZeroGrad ==
  /\ pc = "hook_step"
  /\ LET o == optimizer_dict[cur]
         freed == {p \in optimizers[o].params : grad[p] # <<>>}
     IN /\ grad' = ZeroGrad(optimizers[o], grad)
        /\ Allocator(Repeat("free", Cardinality(freed)))
  /\ pc' = "hook_zero"
  /\ Observe(Resident(grad, acts, optimizers),
             Resident(grad, acts, optimizers))
  /\ UNCHANGED <<phase, iter, value, acts, saved, pending, cur, optimizer,
                 optimizers, optimizer_dict, hooks, recording, snapshot, sz,
                 actsz, before, fired, shadow>>

\* Faulty variant: the hook builds a new Adam for the parameter on every call.
OptimizerHookStep_FreshAdam ==
  /\ pc = "hook_step"
  /\ LET o == 1 + CHOOSE m \in DOMAIN optimizers :
                    \A k \in DOMAIN optimizers : k <= m
         r == AdamStep([params |-> {cur}, state |-> NoState], value, grad)
     IN /\ value' = r.value
        /\ optimizers' = optimizers @@ (o :> r.opt)
        /\ optimizer_dict' = [optimizer_dict EXCEPT ![cur] = o]
        /\ Allocator(<<"alloc", "alloc">>)
  /\ pc' = "hook_zero"
  /\ Observe(Resident(grad, acts, optimizers'),
             Resident(grad, acts, optimizers'))
  /\ UNCHANGED <<phase, iter, grad, acts, saved, pending, cur, optimizer,
                 hooks, recording, snapshot, sz, actsz, before, fired, shadow>>

\* optimizer_hook, first statement: optimizer_dict[parameter].step()
OptimizerHookStep ==
  /\ pc = "hook_step"
  /\ LET o == optimizer_dict[cur]
         r == AdamStep(optimizers[o], value, grad)
         lazy == {p \in optimizers[o].params :
                    grad[p] # <<>> /\ optimizers[o].state[p] = <<>>}
     IN /\ value' = r.value
        /\ optimizers' = [optimizers EXCEPT ![o] = r.opt]
        /\ Allocator(Repeat("alloc", 2 * Cardinality(lazy)))
  /\ pc' = "hook_zero"
  /\ Observe(Resident(grad, acts, optimizers'),
             Resident(grad, acts, optimizers'))
  /\ UNCHANGED <<phase, iter, grad, acts, saved, pending, cur, optimizer,
                 optimizer_dict, hooks, recording, snapshot, sz, actsz,
                 before, fired, shadow>>

\* Faulty variant: the hook never clears the gradient.
OptimizerHookZeroGrad_Omitted ==
  /\ pc = "hook_zero"
  /\ Allocator(<<>>)
  /\ pc' = "bwd"
  /\ Observe(Resident(grad, acts, optimizers),
             Resident(grad, acts, optimizers))
  /\ UNCHANGED <<phase, iter, value, grad, acts, saved, pending, cur,
                 optimizer, optimizers, optimizer_dict, hooks, recording,
                 snapshot, sz, actsz, before, fired, shadow>>

\* optimizer_hook, second statement: optimizer_dict[parameter].zero_grad()
OptimizerHookZeroGrad ==
  /\ pc = "hook_zero"
  /\ LET o == optimizer_dict[cur]
         freed == {p \in optimizers[o].params : grad[p] # <<>>}
     IN /\ grad' = ZeroGrad(optimizers[o], grad)
        /\ Allocator(Repeat("free", Cardinality(freed)))
  /\ pc' = "bwd"
  /\ Observe(Resident(grad, acts, optimizers),
             Resident(grad, acts, optimizers))
  /\ UNCHANGED <<phase, iter, value, acts, saved, pending, cur, optimizer,
                 optimizers, optimizer_dict, hooks, recording, snapshot, sz,
                 actsz, before, fired, shadow>>

\* Baseline train(): backward() has returned, optimizer.step() is next.
BaselineBackwardReturn ==
  /\ pc = "bwd"
  /\ pending = {}
  /\ phase = "baseline"
  /\ pc' = "opt_step"
  /\ UNCHANGED <<phase, iter, value, grad, acts, saved, pending, cur,
                 optimizer, optimizers, optimizer_dict, hooks, recording, log,
                 clock, snapshot, sz, actsz, before, fired, shadow, peak,
                 iterPeak>>

\* Baseline train(): optimizer.step()
BaselineStep ==
  /\ pc = "opt_step"
  /\ LET r == AdamStep(optimizers[optimizer], value, grad)
         lazy == {p \in optimizers[optimizer].params :
                    grad[p] # <<>> /\ optimizers[optimizer].state[p] = <<>>}
     IN /\ value' = r.value
        /\ optimizers' = [optimizers EXCEPT ![optimizer] = r.opt]
        /\ Allocator(Repeat("alloc", 2 * Cardinality(lazy)) \o <<"alloc", "free">>)
  /\ pc' = "opt_zero"
  /\ Observe(Resident(grad, acts, optimizers'),
             Resident(grad, acts, optimizers') + ForeachScratch)
  /\ UNCHANGED <<phase, iter, grad, acts, saved, pending, cur, optimizer,
                 optimizer_dict, hooks, recording, snapshot, sz, actsz,
                 before, fired, shadow>>

\* Faulty variant: train() returns without optimizer.zero_grad().
BaselineZeroGrad_Omitted ==
  /\ pc = "opt_zero"
  /\ Allocator(<<>>)
  /\ pc' = "loop"
  /\ iter' = iter + 1
  /\ UNCHANGED <<phase, value, grad, acts, saved, pending, cur, optimizer,
                 optimizers, optimizer_dict, hooks, recording, snapshot, sz,
                 actsz, before, fired, shadow, peak, iterPeak>>

\* Baseline train(): optimizer.zero_grad(), and train() returns.
BaselineZeroGrad ==
  /\ pc = "opt_zero"
  /\ LET freed == {p \in optimizers[optimizer].params : grad[p] # <<>>}
     IN /\ grad' = ZeroGrad(optimizers[optimizer], grad)
        /\ Allocator(Repeat("free", Cardinality(freed)))
  /\ pc' = "loop"
  /\ iter' = iter + 1
  /\ UNCHANGED <<phase, value, acts, saved, pending, cur, optimizer,
                 optimizers, optimizer_dict, hooks, recording, snapshot, sz,
                 actsz, before, fired, shadow, peak, iterPeak>>

\* Fused train(): backward() has returned and so does train(); the
\* optimizer.step() and optimizer.zero_grad() calls are commented out.
FusedTrainReturn ==
  /\ pc = "bwd"
  /\ pending = {}
  /\ phase = "fused"
  /\ pc' = "loop"
  /\ iter' = iter + 1
  /\ UNCHANGED <<phase, value, grad, acts, saved, pending, cur, optimizer,
                 optimizers, optimizer_dict, hooks, recording, log, clock,
                 snapshot, sz, actsz, before, fired, shadow, peak, iterPeak>>

\* s = torch.cuda.memory._snapshot(); dump(s, f)
Snapshot ==
  /\ pc = "loop"
  /\ iter = NumIters
  /\ snapshot' = [snapshot EXCEPT ![phase] = <<log>>]
  /\ pc' = "snapshotted"
  /\ UNCHANGED <<phase, iter, value, grad, acts, saved, pending, cur,
                 optimizer, optimizers, optimizer_dict, hooks, recording, log,
                 clock, sz, actsz, before, fired, shadow, peak, iterPeak>>

\* Faulty variant: the call that stops the recording is left out.
RecordMemoryHistoryOff_StillOn ==
  /\ pc = "snapshotted"
  /\ pc' = IF phase = "baseline" THEN "setup" ELSE "done"
  /\ UNCHANGED <<phase, iter, value, grad, acts, saved, pending, cur,
                 optimizer, optimizers, optimizer_dict, hooks, recording, log,
                 clock, snapshot, sz, actsz, before, fired, shadow, peak,
                 iterPeak>>

\* torch.cuda.memory._record_memory_history(enabled=None): recording stops;
\* the recorder may keep or drop the history it holds.
RecordMemoryHistoryOff ==
  /\ pc = "snapshotted"
  /\ recording' = FALSE
  /\ \E keep \in BOOLEAN : log' = IF keep THEN log ELSE <<>>
  /\ pc' = IF phase = "baseline" THEN "setup" ELSE "done"
  /\ UNCHANGED <<phase, iter, value, grad, acts, saved, pending, cur,
                 optimizer, optimizers, optimizer_dict, hooks, clock, snapshot,
                 sz, actsz, before, fired, shadow, peak, iterPeak>>

\* Faulty variant: one Adam over all parameters is stored under every key.
BuildOptimizerDict_Shared ==
  /\ pc = "setup"
  /\ optimizer_dict' = [p \in Params |-> NumParams + 1]
  /\ optimizers' = optimizers @@
                     (NumParams + 1 :> [params |-> Params, state |-> NoState])
  /\ shadow' = [value |-> value,
                opt |-> [params |-> Params, state |-> NoState]]
  /\ pc' = "register"
  /\ UNCHANGED <<phase, iter, value, grad, acts, saved, pending, cur,
                 optimizer, hooks, recording, log, clock, snapshot, sz, actsz,
                 before, fired, peak, iterPeak>>

\* optimizer_dict = {p: torch.optim.Adam([p], foreach=False)
\*                   for p in model.parameters()}
BuildOptimizerDict ==
  /\ pc = "setup"
  /\ optimizer_dict' = [p \in Params |-> p]
  /\ optimizers' = optimizers @@
                     [o \in Params |-> [params |-> {o}, state |-> NoState]]
  /\ shadow' = [value |-> value,
                opt |-> [params |-> Params, state |-> NoState]]
  /\ pc' = "register"
  /\ UNCHANGED <<phase, iter, value, grad, acts, saved, pending, cur,
                 optimizer, hooks, recording, log, clock, snapshot, sz, actsz,
                 before, fired, peak, iterPeak>>

\* Faulty variant: the loop skips the first parameter.
RegisterHooks_SkipFirst ==
  /\ pc = "register"
  /\ hooks' = hooks \cup (Params \ {1})
  /\ pc' = "del"
  /\ UNCHANGED <<phase, iter, value, grad, acts, saved, pending, cur,
                 optimizer, optimizers, optimizer_dict, recording, log, clock,
                 snapshot, sz, actsz, before, fired, shadow, peak, iterPeak>>

\* for p in model.parameters(): p.register_post_accumulate_grad_hook(optimizer_hook)
RegisterHooks ==
  /\ pc = "register"
  /\ hooks' = hooks \cup Params
  /\ pc' = "del"
  /\ UNCHANGED <<phase, iter, value, grad, acts, saved, pending, cur,
                 optimizer, optimizers, optimizer_dict, recording, log, clock,
                 snapshot, sz, actsz, before, fired, shadow, peak, iterPeak>>

\* del optimizer: the shared Adam and its state are freed.
DelOptimizer ==
  /\ pc = "del"
  /\ LET held == {p \in Params : optimizers[optimizer].state[p] # <<>>}
     IN Allocator(Repeat("free", 2 * Cardinality(held)))
  /\ optimizers' = [o \in DOMAIN optimizers \ {optimizer} |-> optimizers[o]]
  /\ optimizer' = -1
  /\ pc' = "fused_start"
  /\ UNCHANGED <<phase, iter, value, grad, acts, saved, pending, cur,
                 optimizer_dict, hooks, recording, snapshot, sz, actsz,
                 before, fired, shadow, peak, iterPeak>>

\* ----------------------------------------------------- specifications
Script ==
  \/ RecordMemoryHistoryOn
  \/ \E p \in Params : EngineAccumulate(p)
  \/ OptimizerHookStep
  \/ OptimizerHookZeroGrad
  \/ BaselineBackwardReturn
  \/ BaselineStep
  \/ BaselineZeroGrad
  \/ FusedTrainReturn
  \/ Snapshot
  \/ RecordMemoryHistoryOff
  \/ BuildOptimizerDict
  \/ RegisterHooks
  \/ DelOptimizer

\* The script as written: every parameter of vit_l_16 is on the graph.
Next == Forward({Params}, 0..MaxImage) \/ Script

Spec == Init /\ [][Next]_vars

\* The model replaced by one whose forward pass may leave parameters off the
\* graph (an unused branch) once the hooks are in place; at least one
\* parameter is always reached.  One fixed image.
BranchGraphs == IF phase = "fused" THEN SUBSET Params \ {{}} ELSE {Params}

NextBranch == Forward(BranchGraphs, {0}) \/ Script

SpecBranch == Init /\ [][NextBranch]_vars

\* The model and batch replaced by ones of any size; one fixed image.
NextAnySize == Forward({Params}, {0}) \/ Script

SpecAnySize == InitAnySize /\ [][NextAnySize]_vars

\* ------------------------------------------------------------- claims

\* One Adam update of p from the values and state the pass started with,
\* using the gradient of that pass.
OneUpdate(p) ==
  AdamUpdate(before.value[p], Gradient(p, saved.value, saved.x),
             before.state[p])

FusedPassOver == phase = "fused" /\ pc = "loop" /\ iter >= 1

\* C1: after a fused train(model) call has finished its backward pass, every
\* parameter's gradient is cleared and its value and update-rule state are
\* those of exactly one update applied to what the pass started with.
C1_OneUpdateAndClearedGrad ==
  FusedPassOver =>
    \A p \in Params :
      /\ grad[p] = <<>>
      /\ value[p] = OneUpdate(p).value
      /\ StateOf(p) = OneUpdate(p).state
      /\ StateOf(p)[1].step =
           (IF before.state[p] = <<>> THEN 0 ELSE before.state[p][1].step) + 1

C1_Witness ==
  /\ FusedPassOver
  /\ iter = 2
  /\ \E p \in Params : value[p] # before.value[p]

\* C2: after every fused iteration the parameters equal those of the
\* reference run, which performs baseline iterations (one shared Adam, step
\* after backward) from the same start on the same images, in whatever order
\* the engine delivered the gradients; and a baseline train() call does what
\* one step of the reference run does.
C2_FusedMatchesBaseline ==
  /\ (phase = "fused" /\ pc = "loop") => value = shadow.value
  /\ (phase = "baseline" /\ pc = "loop" /\ iter >= 1) =>
       value = BaselineIteration(
                 [value |-> before.value,
                  opt |-> [params |-> Params, state |-> before.state]],
                 saved.x, saved.graph).value

C2_Witness ==
  /\ phase = "fused"
  /\ pc = "loop"
  /\ iter = NumIters
  /\ \A p \in Params : value[p] # before.value[p]

DictBuilt == pc \in {"register", "del", "fused_start"} \/ phase = "fused"

\* C3: once optimizer_dict is built its keys are exactly the model's
\* parameters, no two parameters share an Adam instance, and every instance
\* it names is alive and owns exactly the parameter it is stored under.
C3_DictIsBijection ==
  DictBuilt =>
    /\ DOMAIN optimizer_dict = Params
    /\ \A p, q \in Params :
         optimizer_dict[p] = optimizer_dict[q] => p = q
    /\ \A p \in Params :
         /\ optimizer_dict[p] \in DOMAIN optimizers
         /\ optimizers[optimizer_dict[p]].params = {p}

C3_Witness ==
  /\ phase = "fused"
  /\ pc = "hook_zero"
  /\ iter = NumIters - 1
  /\ Cardinality({optimizer_dict[p] : p \in Params}) = NumParams

InFusedBackward == phase = "fused" /\ pc \in {"bwd", "hook_step", "hook_zero"}

ResidentGrads == {p \in Params : grad[p] # <<>>}

\* C4: during a fused backward pass a parameter holds at most one gradient
\* buffer, at most one parameter's gradient is resident, the only gradient
\* resident past its update is that of the parameter whose hook is running,
\* and with two or more parameters some gradient is always absent.
C4_OneGradientResident ==
  InFusedBackward =>
    /\ \A p \in Params : Len(grad[p]) <= 1
    /\ Cardinality(ResidentGrads) <= 1
    /\ \A p \in ResidentGrads :
         StateOf(p) # before.state[p] => (pc = "hook_zero" /\ p = cur)
    /\ NumParams >= 2 => ResidentGrads # Params

C4_Witness ==
  /\ InFusedBackward
  /\ pc = "hook_zero"
  /\ cur \in ResidentGrads
  /\ StateOf(cur) # before.state[cur]
  /\ pending # {}

TotalGradMem == ParamMem
TotalActMem == Sum(actsz, Params)
LargestGrad == CHOOSE m \in {sz[p] : p \in Params} : \A q \in Params : sz[q] <= m

\* C5 as stated: whenever gradient memory is not zero, the fused window's
\* peak resident memory is strictly below the baseline window's.
C5_StrictlyLessWheneverGradients ==
  (pc = "done" /\ TotalGradMem > 0) => peak["fused"] < peak["baseline"]

\* C5 as amended: the fused peak is strictly below the baseline peak whenever
\* all gradients together are larger than the saved activations plus the
\* largest single gradient.
C5_StrictlyLessWhenGradientsDominate ==
  (pc = "done" /\ TotalGradMem > TotalActMem + LargestGrad) =>
    peak["fused"] < peak["baseline"]

C5_Witness ==
  /\ pc = "done"
  /\ TotalGradMem > TotalActMem + LargestGrad
  /\ TotalActMem > 0
  /\ peak["fused"] < peak["baseline"]

\* C6: in a fused backward pass the hook of a parameter starts with the
\* parameter's complete gradient of the pass in place and nothing applied yet;
\* step() has been applied once, and the gradient is still there, when
\* zero_grad() is about to run; and when backward has delivered everything,
\* and after train() has returned, every hook has fired exactly once, every
\* parameter has had exactly one update and every gradient is cleared.
C6_HookOncePerParameter ==
  phase = "fused" =>
    /\ pc = "hook_step" =>
         /\ cur \notin pending
         /\ fired[cur] = 1
         /\ grad[cur] = <<Gradient(cur, saved.value, saved.x)>>
         /\ value[cur] = before.value[cur]
         /\ StateOf(cur) = before.state[cur]
    /\ pc = "hook_zero" =>
         /\ fired[cur] = 1
         /\ grad[cur] # <<>>
         /\ value[cur] = OneUpdate(cur).value
         /\ StateOf(cur) = OneUpdate(cur).state
    /\ pc \in {"bwd", "hook_step", "hook_zero"} =>
         \A p \in pending : fired[p] = 0 /\ StateOf(p) = before.state[p]
    /\ ((pc = "bwd" /\ pending = {}) \/ (pc = "loop" /\ iter >= 1)) =>
         \A p \in Params :
           /\ fired[p] = 1
           /\ grad[p] = <<>>
           /\ StateOf(p) = OneUpdate(p).state

C6_Witness ==
  /\ phase = "fused"
  /\ pc = "bwd"
  /\ pending = {}
  /\ iter = 1
  /\ \A p \in Params : fired[p] = 1

StepsSince(p) ==
  (IF StateOf(p) = <<>> THEN 0 ELSE StateOf(p)[1].step)
    - (IF before.state[p] = <<>> THEN 0 ELSE before.state[p][1].step)

\* C7: in a baseline iteration nothing is updated during forward and
\* backward; when optimizer.step() is invoked every gradient is populated and
\* the activations are gone; step() is applied once, with all gradients
\* still resident, and that is where the iteration's memory peaks; and when
\* the iteration ends every gradient is cleared.
C7_BaselineOrder ==
  phase = "baseline" =>
    /\ pc = "bwd" =>
         \A p \in Params : StepsSince(p) = 0 /\ value[p] = before.value[p]
    /\ pc = "opt_step" =>
         /\ \A p \in Params : grad[p] # <<>> /\ StepsSince(p) = 0
         /\ acts = {}
    /\ pc = "opt_zero" =>
         /\ \A p \in Params : grad[p] # <<>> /\ StepsSince(p) = 1
         /\ iterPeak.at = "opt_step"
    /\ (pc = "loop" /\ iter >= 1) =>
         /\ \A p \in Params : grad[p] = <<>> /\ StepsSince(p) = 1
         /\ iterPeak.at = "opt_step"

C7_Witness ==
  /\ phase = "baseline"
  /\ pc = "opt_zero"
  /\ iter = NumIters - 1
  /\ ResidentGrads = Params
  /\ iterPeak.mem = Resident(grad, acts, optimizers) + ForeachScratch

Chronological(l) == \A j, k \in 1..Len(l) : j < k => l[j].t < l[k].t

RecordingOff == {"setup", "register", "del", "fused_start", "done"}

LogOnlyGrowsWhileRecording ==
  /\ pc = "snapshotted" => log' \in {log, <<>>}
  /\ pc \in RecordingOff => log' = log

\* C8: every snapshot the script dumps is a non-empty, chronologically
\* ordered log that holds an allocation; the call that stops the recording
\* leaves the log unchanged or empty; and from there until recording is
\* started again no step changes the log.
C8_RecorderWindow ==
  /\ [](\A ph \in Phases :
          snapshot[ph] # <<>> =>
            /\ Len(snapshot[ph][1]) > 0
            /\ Chronological(snapshot[ph][1])
            /\ \E k \in 1..Len(snapshot[ph][1]) :
                 snapshot[ph][1][k].kind = "alloc")
  /\ [][LogOnlyGrowsWhileRecording]_vars

\* del optimizer has freed memory after the last event the log holds.
C8_Witness ==
  /\ pc = "fused_start"
  /\ ~recording
  /\ snapshot["baseline"] # <<>>
  /\ log = snapshot["baseline"][1]
  /\ Len(log) > 0
  /\ clock > log[Len(log)].t

\* C9: a parameter that is off the graph in a fused pass sees no hook, no
\* update and no gradient: after the pass its value and its update-rule state
\* are what they were before it, and the script carries on.
C9_UnusedParameterUntouched ==
  (phase = "fused" /\ pc \in {"bwd", "hook_step", "hook_zero", "loop"}
     /\ (pc = "loop" => iter >= 1)) =>
    \A p \in Params \ saved.graph :
      /\ fired[p] = 0
      /\ grad[p] = <<>>
      /\ value[p] = before.value[p]
      /\ StateOf(p) = before.state[p]

C9_Witness ==
  /\ FusedPassOver
  /\ \E p \in Params \ saved.graph : before.state[p] # <<>>
  /\ \E q \in saved.graph : StateOf(q) # before.state[q]

HookLeavesTheRest ==
  pc \in {"hook_step", "hook_zero"} =>
    /\ optimizer_dict' = optimizer_dict
    /\ \A q \in Params \ {cur} :
         /\ value'[q] = value[q]
         /\ grad'[q] = grad[q]
         /\ StateOf(q)' = StateOf(q)

\* C10: a step of optimizer_hook(p) leaves optimizer_dict as it is and leaves
\* the value, gradient and update-rule state of every other parameter as they
\* are, whether those parameters have had their gradient yet or not.
C10_HookFrame == [][HookLeavesTheRest]_vars

C10_Witness ==
  /\ phase = "fused"
  /\ pc = "hook_zero"
  /\ StateOf(cur) # before.state[cur]
  /\ \E q \in Params \ {cur} : q \notin pending /\ fired[q] = 1

====
